---- MODULE Spec2Model ----
(***************************************************************************)
(* Model of the redis-cerberus proxy core (src/proxy.cpp): the epoll       *)
(* reactor's handlers for the Acceptor, the Client sessions and the single *)
(* upstream Server session, together with the two sockets' peers (the      *)
(* clients and the upstream redis) as the environment.                     *)
(*                                                                         *)
(* A Client object is identified by its address (a slot); a freed slot may *)
(* be handed out again by a later `new Client`.  A byte is a record        *)
(* [k, c, i]: k = "req" is a complete request frame sent by the client in  *)
(* slot c (i is its serial number), k = "+" / "-" opens a reply frame and  *)
(* k = "crlf" closes it; k = "x" is a byte that opens no frame.  A Server   *)
(* object is identified by an address as well.                             *)
(***************************************************************************)
EXTENDS Integers, Sequences, FiniteSets, TLC

\* ------------------------------------------------------------- bounds
MaxClients == 2      \* Client addresses (slots)
MaxReq == 2          \* request frames sent by all clients over a run
MaxPerEdge == 2      \* request frames one readable edge can carry
MaxBad == 1          \* bytes that open no frame, unread or unframed at a time

NULL == 0
Slots == 1..MaxClients

VARIABLES
    live,           \* the Client objects that exist (not deleted)
    buffer,         \* Client::buffer, per slot (kept as stale memory after delete)
    cmask,          \* epoll interest mask of each client fd
    peer,           \* Client::peer (0 = nullptr)
    server_conn,    \* Proxy::server_conn (0 = nullptr)
    clients,        \* Server::clients: the staging queue
    ready_clients,  \* Server::ready_clients: the pending queue (NULL = tombstone)
    s_buffer,       \* Server::_buffer: upstream reply bytes not yet framed
    smask,          \* epoll interest mask of the upstream fd
    pc,             \* where the reactor thread is
    cur,            \* the Client whose handler is running (pc = "client_send")
    wire,           \* bytes written to the upstream socket, not yet consumed
    upTx,           \* bytes the upstream has sent and the proxy has not read
    up,             \* the upstream peer: "open", "fin" (it has closed, the
                    \* end of stream is not read yet), "eof" (read gave 0)
    cliOut,         \* bytes written to each client's socket
    assigned,       \* reply bytes Server::_recv_from gave to each client
    nreq,           \* request frames sent so far
    nedge           \* readable edges of clients that delivered bytes so far

vars == <<live, buffer, cmask, peer, server_conn, clients, ready_clients,
          s_buffer, smask, pc, cur, wire, upTx, up, cliOut, assigned,
          nreq, nedge>>

progVars == <<live, buffer, cmask, peer, server_conn, clients, ready_clients,
              s_buffer, smask>>

\* the process has ended: exit(1) after a failed or short writev or a failed
\* epoll_ctl ("exit_io"),
\* exit(1) on a bad or surplus upstream reply ("exit_bad"), or the outcome of
\* a use of freed memory ("crash")
Exits == {"exit_io", "exit_bad", "crash"}

\* ------------------------------------------------------------- bytes
ReqByte(c, i) == [k |-> "req", c |-> c, i |-> i]
TypeMarkers == {"+", "-"}

RECURSIVE Concat(_)
Concat(ss) == IF ss = <<>> THEN <<>> ELSE Head(ss) \o Concat(Tail(ss))

\* the k request frames a client in slot c sends next
NewRequests(c, k) == [j \in 1..k |-> ReqByte(c, nreq + j)]

\* ------------------------------------------------------------- Buffer
\* Buffer::read: the bytes the fd delivers are appended
BufferRead(buf, bytes) == buf \o bytes

\* Buffer::copy_from: a byte range is appended
BufferCopyFrom(buf, bytes) == buf \o bytes

\* Buffer::truncate_from_begin: drop the bytes before offset n
BufferTruncate(buf, n) == SubSeq(buf, n + 1, Len(buf))

\* ------------------------------------------------------------- msg::split
\* index of the first "crlf" at or after position p, 0 if there is none
RECURSIVE FindCrlf(_, _)
FindCrlf(buf, p) ==
    IF p > Len(buf) THEN 0
    ELSE IF buf[p].k = "crlf" THEN p
    ELSE FindCrlf(buf, p + 1)

\* frames from position p on; acc holds the frames found so far as <<begin, end>>
RECURSIVE SplitFrom(_, _, _)
SplitFrom(buf, p, acc) ==
    IF p > Len(buf)
    THEN [bad |-> FALSE, msgs |-> acc, finished |-> TRUE, interrupt |-> Len(buf)]
    ELSE IF buf[p].k \notin TypeMarkers
    THEN [bad |-> TRUE, msgs |-> acc, finished |-> FALSE, interrupt |-> p - 1]
    ELSE LET e == FindCrlf(buf, p + 1) IN
         IF e = 0
         THEN [bad |-> FALSE, msgs |-> acc, finished |-> FALSE, interrupt |-> p - 1]
         ELSE SplitFrom(buf, e + 1, Append(acc, <<p, e>>))

Split(buf) == SplitFrom(buf, 1, <<>>)

\* the bytes of the frame <<begin, end>> of buf
Range(buf, m) == SubSeq(buf, m[1], m[2])

\* ------------------------------------------------------------- queues
\* push_client that appends the client twice
push_client_twice(q, cli) == Append(Append(q, cli), cli)

\* Server::push_client
push_client(q, cli) == Append(q, cli)

\* pop_client_from: std::find_if, then erase of the element found
RECURSIVE pop_client_from(_, _)
pop_client_from(q, cli) ==
    IF q = <<>> THEN <<>>
    ELSE IF Head(q) = cli THEN Tail(q)
    ELSE <<Head(q)>> \o pop_client_from(Tail(q), cli)

\* std::replace(ready_clients.begin(), ready_clients.end(), cli, nullptr)
replace_null(q, cli) == [j \in 1..Len(q) |-> IF q[j] = cli THEN NULL ELSE q[j]]

\* pop_client that erases the client's slots from ready_clients as well
pop_client_erase(st, rd, cli) ==
    <<pop_client_from(st, cli), SelectSeq(rd, LAMBDA x : x # cli)>>

\* Server::pop_client: the two queues <<clients, ready_clients>> afterwards
pop_client(st, rd, cli) == <<pop_client_from(st, cli), replace_null(rd, cli)>>

\* copy_messages with the iterators out of step: a tombstone is stepped over
\* without its frame being dropped, so the frame goes to the next live slot
RECURSIVE copy_messages_shift(_, _, _, _, _, _)
copy_messages_shift(rd, bufs, src, msgs, k, s) ==
    IF k > Len(msgs) \/ s > Len(rd) THEN [bufs |-> bufs, it |-> Len(msgs)]
    ELSE IF rd[s] = NULL THEN copy_messages_shift(rd, bufs, src, msgs, k, s + 1)
    ELSE copy_messages_shift(rd,
             [bufs EXCEPT ![rd[s]] = BufferCopyFrom(@, Range(src, msgs[k]))],
             src, msgs, k + 1, s + 1)

copy_messages_skip(rd, bufs, src, msgs, k) ==
    copy_messages_shift(rd, bufs, src, msgs, k, k)

\* copy_messages: walks the frames and the queue together from the queue's
\* first slot; bufs are the clients' buffers, src the upstream buffer.
\* Gives the buffers afterwards and how far client_it has advanced.
RECURSIVE copy_messages(_, _, _, _, _)
copy_messages(rd, bufs, src, msgs, k) ==
    IF k > Len(msgs) THEN [bufs |-> bufs, it |-> k - 1]
    ELSE IF rd[k] = NULL THEN copy_messages(rd, bufs, src, msgs, k + 1)
    ELSE copy_messages(rd,
             [bufs EXCEPT ![rd[k]] = BufferCopyFrom(@, Range(src, msgs[k]))],
             src, msgs, k + 1)

\* Proxy::notify_each over the slots [1, it] of the queue: the masks afterwards
notify_each(rd, it, masks) ==
    [c \in Slots |->
        IF \E j \in 1..it : rd[j] = c THEN {"R", "W"} ELSE masks[c]]

\* erase of the first slot only
erase_first(q, it) == IF it = 0 THEN q ELSE Tail(q)

\* std::vector::erase(begin, client_it)
erase_prefix(q, it) == SubSeq(q, it + 1, Len(q))

\* ------------------------------------------------------------- initial state
\* Proxy::Proxy: no Server, no Client, nothing on any socket
Init ==
    /\ live = {}
    /\ buffer = [c \in Slots |-> <<>>]
    /\ cmask = [c \in Slots |-> {}]
    /\ peer = [c \in Slots |-> 0]
    /\ server_conn = 0
    /\ clients = <<>>
    /\ ready_clients = <<>>
    /\ s_buffer = <<>>
    /\ smask = {}
    /\ pc = "reactor"
    /\ cur = 0
    /\ wire = <<>>
    /\ upTx = <<>>
    /\ up = "open"
    /\ cliOut = [c \in Slots |-> <<>>]
    /\ assigned = [c \in Slots |-> <<>>]
    /\ nreq = 0
    /\ nedge = 0

envVars == <<wire, upTx, up>>

\* ------------------------------------------------------------- Acceptor
\* a free address that nothing in the program points to; such addresses are
\* interchangeable, and the allocator is taken to hand them out lowest first
Fresh(c) ==
    /\ c \notin live
    /\ \A j \in 1..Len(clients) : clients[j] # c
    /\ \A j \in 1..Len(ready_clients) : ready_clients[j] # c

\* Acceptor::triggered -> Proxy::accept_from: every waiting connection is
\* accepted; each new Client gets a free address and is registered
\* EPOLLIN | EPOLLET | EPOLLRDHUP
accept_from(S) ==
    /\ pc = "reactor"
    /\ S # {}
    /\ S \cap live = {}
    /\ \A c \in S, d \in Slots : Fresh(c) /\ Fresh(d) /\ d < c => d \in S
    /\ live' = live \cup S
    /\ buffer' = [c \in Slots |-> IF c \in S THEN <<>> ELSE buffer[c]]
    /\ cmask' = [c \in Slots |-> IF c \in S THEN {"R", "H"} ELSE cmask[c]]
    /\ peer' = [c \in Slots |-> IF c \in S THEN 0 ELSE peer[c]]
    /\ cliOut' = [c \in Slots |-> IF c \in S THEN <<>> ELSE cliOut[c]]
    /\ assigned' = [c \in Slots |-> IF c \in S THEN <<>> ELSE assigned[c]]
    /\ UNCHANGED <<server_conn, clients, ready_clients, s_buffer, smask, pc,
                   cur, nreq, nedge>>
    /\ UNCHANGED envVars

\* ------------------------------------------------------------- Client
\* Proxy::connect_to: the singleton, created (and registered EPOLLIN |
\* EPOLLOUT | EPOLLET) when there is none; a new Server gets the lowest
\* address that no Client::peer holds
connect_to ==
    IF server_conn # 0 THEN server_conn
    ELSE CHOOSE s \in Slots :
            /\ \A c \in Slots : peer[c] # s
            /\ \A t \in Slots : (\A c \in Slots : peer[c] # t) => s <= t

\* Proxy::shut_client, from Client::~Client: the queues <<clients,
\* ready_clients>> afterwards, given the queues before
shut_client(sc, st, rd, cli) ==
    IF sc # 0 THEN pop_client(st, rd, cli) ELSE <<st, rd>>

\* what `delete this` leaves of a per-client field: the freed memory can be
\* read again only through an entry of clients that still points to it
Freed(f, c, st, init) == [f EXCEPT ![c] = IF \E j \in 1..Len(st) : st[j] = c
                                          THEN @ ELSE init]

\* Client::triggered with EPOLLRDHUP: delete this
ClientHup(c) ==
    /\ pc = "reactor"
    /\ c \in live
    /\ "H" \in cmask[c]
    /\ LET q == shut_client(server_conn, clients, ready_clients, c) IN
         /\ clients' = q[1]
         /\ ready_clients' = q[2]
         /\ buffer' = Freed(buffer, c, q[1], <<>>)
    /\ live' = live \ {c}
    /\ cmask' = [cmask EXCEPT ![c] = {}]
    /\ peer' = [peer EXCEPT ![c] = 0]
    /\ cliOut' = [cliOut EXCEPT ![c] = <<>>]
    /\ assigned' = [assigned EXCEPT ![c] = <<>>]
    /\ UNCHANGED <<server_conn, s_buffer, smask, pc, cur, nreq, nedge>>
    /\ UNCHANGED envVars

\* Client::_recv_from, from Client::triggered with EPOLLIN.  k is the number
\* of request frames the fd delivers (0: the peer has closed, read gives 0;
\* with EPOLLRDHUP in the mask the close comes as EPOLLRDHUP instead);
\* w tells whether EPOLLOUT is in the same event, so that _send_to follows.
\* Client::peer is looked up once and kept: when the Server it points to has
\* been deleted, push_client and epoll_ctl work on the freed Server (stale):
\* the process dies, epoll_ctl fails on the closed fd (exit(1)), or the
\* handler goes on with the push lost in freed memory.
ClientRecvFrom(c, k, w) ==
    /\ pc = "reactor"
    /\ c \in live
    /\ "R" \in cmask[c]
    /\ w => "W" \in cmask[c]
    /\ k = 0 => "H" \notin cmask[c]
    /\ nreq + k <= MaxReq
    /\ LET sc1 == IF peer[c] = 0 THEN connect_to ELSE server_conn
           svr == IF peer[c] = 0 THEN connect_to ELSE peer[c]
           stale == svr # sc1
           created == peer[c] = 0 /\ server_conn = 0
           st1 == IF stale THEN clients ELSE push_client(clients, c)
           returns == IF w THEN "client_send" ELSE "reactor"
       IN  /\ server_conn' = sc1
           /\ IF k = 0
              THEN LET q == shut_client(sc1, st1, ready_clients, c) IN
                   /\ clients' = q[1]
                   /\ ready_clients' = q[2]
                   /\ buffer' = Freed(buffer, c, q[1], <<>>)
                   /\ live' = live \ {c}
                   /\ cmask' = [cmask EXCEPT ![c] = {}]
                   /\ peer' = [peer EXCEPT ![c] = 0]
                   /\ cliOut' = [cliOut EXCEPT ![c] = <<>>]
                   /\ assigned' = [assigned EXCEPT ![c] = <<>>]
                   /\ smask' = IF created THEN {"R", "W"} ELSE smask
                   /\ pc' \in IF stale THEN {"crash", returns} ELSE {returns}
                   /\ UNCHANGED <<nreq, nedge>>
              ELSE /\ clients' = st1
                   /\ buffer' = [buffer EXCEPT
                                   ![c] = BufferRead(@, NewRequests(c, k))]
                   /\ peer' = [peer EXCEPT ![c] = svr]
                   /\ nreq' = nreq + k
                   /\ nedge' = nedge + 1
                   /\ smask' = IF stale THEN smask ELSE {"R", "W"}
                   /\ pc' \in IF stale THEN {"crash", "exit_io", returns}
                              ELSE {returns}
                   /\ UNCHANGED <<ready_clients, live, cmask, cliOut, assigned>>
    /\ cur' = IF pc' = "client_send" THEN c ELSE 0
    /\ UNCHANGED <<s_buffer>>
    /\ UNCHANGED envVars

\* Client::_send_to, from Client::triggered with EPOLLOUT (alone, or after
\* _recv_from in the same event).  After `delete this` in _recv_from the call
\* is a use of a freed object: the process dies or goes on unharmed.
ClientSendTo(c) ==
    /\ \/ pc = "reactor" /\ c \in live /\ "W" \in cmask[c]
       \/ pc = "client_send" /\ cur = c
    /\ IF c \in live
       THEN /\ cliOut' = [cliOut EXCEPT ![c] = @ \o buffer[c]]
            /\ buffer' = [buffer EXCEPT ![c] = <<>>]
            /\ cmask' = [cmask EXCEPT ![c] = {"R"}]
            /\ pc' = "reactor"
       ELSE /\ pc' \in {"reactor", "crash"}
            /\ UNCHANGED <<cliOut, buffer, cmask>>
    /\ cur' = 0
    /\ UNCHANGED <<live, peer, server_conn, clients, ready_clients, s_buffer,
                   smask, assigned, nreq, nedge>>
    /\ UNCHANGED envVars

\* ------------------------------------------------------------- Server
\* the scatter list of Server::_send_to: every queued client's buffer, in
\* queue order (Buffer::buffer_ready per entry)
Iov(q) == Concat([j \in 1..Len(q) |-> buffer[q[j]]])

\* the mask left on the upstream fd when the batch was not written
mask_after_send_both == {"R", "W"}

\* the mask Server::_send_to sets on the upstream fd after the writev:
\* EPOLLIN | EPOLLET
mask_after_send == {"R"}

\* one writev of the bytes iov and what the loop around it does with the
\* result o: "ok" (nwrite = n), "eagain" (the loop goes round again), "short"
\* (m < n bytes written: perror and exit(1)).  With n = 0 writev gives 0 and
\* errno, left by an earlier call, decides between "eagain" and "ok".
Writev(iov, o) ==
    /\ o = "short" => Len(iov) > 0
    /\ \E m \in 0..Len(iov) :
         /\ o = "short" => m < Len(iov)
         /\ o # "short" => m = 0
         /\ wire' = CASE o = "ok" -> wire \o iov
                      [] o = "short" -> wire \o SubSeq(iov, 1, m)
                      [] OTHER -> wire
    /\ smask' = IF o = "ok" THEN mask_after_send ELSE smask
    /\ pc' = CASE o = "ok" -> "reactor"
               [] o = "short" -> "exit_io"
               [] OTHER -> "writev"

WritevOutcomes == {"ok", "eagain", "short"}

\* _send_to without the test of ready_clients
send_to_skips_staging_only == clients = <<>>

\* the two early returns of Server::_send_to
send_to_skips == clients = <<>> \/ ready_clients # <<>>

\* Server::_send_to, from Server::triggered with EPOLLOUT (alone, or after
\* _recv_from in the same event).  An entry of clients that points to a
\* deleted Client makes buffer_ready read freed memory: the process dies, or
\* the stale bytes are read.
ServerSendTo(o, crash) ==
    /\ \/ pc = "reactor" /\ server_conn # 0 /\ "W" \in smask
       \/ pc = "server_send"
    /\ IF send_to_skips
       THEN /\ o = "ok" /\ ~crash
            /\ pc' = "reactor"
            /\ UNCHANGED <<clients, ready_clients, wire, smask>>
       ELSE /\ ready_clients' = clients
            /\ clients' = <<>>
            /\ crash => \E j \in 1..Len(clients) : clients[j] \notin live
            /\ IF crash
               THEN /\ o = "ok"
                    /\ pc' = "crash"
                    /\ UNCHANGED <<wire, smask>>
               ELSE Writev(Iov(clients), o)
    /\ cur' = 0
    /\ UNCHANGED <<live, buffer, cmask, peer, server_conn, s_buffer, cliOut,
                   assigned, nreq, nedge, upTx, up>>

\* the writev loop of Server::_send_to going round after EAGAIN
WritevRetry(o) ==
    /\ pc = "writev"
    /\ Writev(Iov(ready_clients), o)
    /\ UNCHANGED <<live, buffer, cmask, peer, server_conn, clients,
                   ready_clients, s_buffer, cur, cliOut, assigned, nreq,
                   nedge, upTx, up>>

\* the test of Server::_recv_from with >= for >
lost_correlation_early(messages, rd) ==
    messages.bad \/ Len(messages.msgs) >= Len(rd)

\* the two fatal outcomes of the framing in Server::_recv_from: msg::split
\* throws BadRedisMessage, or it frames more messages than ready_clients has
\* entries
lost_correlation(messages, rd) ==
    messages.bad \/ Len(messages.msgs) > Len(rd)

\* the upstream buffer cleared whatever the parse left
keep_nothing(buf, messages) == <<>>

\* what Server::_recv_from leaves in _buffer: nothing when the parse has
\* finished, else the bytes from the interrupt point on
keep_interrupted(buf, messages) ==
    IF messages.finished THEN <<>>
    ELSE BufferTruncate(buf, messages.interrupt)

\* Server::_recv_from, from Server::triggered with EPOLLIN.  n is the number
\* of bytes the fd delivers, any part of what has arrived, or 0 at the end of
\* the stream: the handler then returns at once.  w tells whether EPOLLOUT
\* is in the same event.
\* A slot among the first M that points to a deleted Client makes copy_from
\* and epoll_ctl work on freed memory: the process dies (crash), or the
\* bytes land in the freed buffer.
ServerRecvFrom(w, crash) ==
    /\ pc = "reactor"
    /\ server_conn # 0
    /\ "R" \in smask
    /\ w => "W" \in smask
    /\ \/ /\ upTx = <<>>
          /\ up = "fin"
          /\ ~crash
          /\ up' = "eof"
          /\ pc' = IF w THEN "server_send" ELSE "reactor"
          /\ cur' = 0
          /\ UNCHANGED <<upTx, buffer, cmask, ready_clients, s_buffer, smask,
                         assigned>>
       \/ \E n \in 1..Len(upTx) :
          /\ upTx' = SubSeq(upTx, n + 1, Len(upTx))
          /\ up' = up
          /\ LET buf1 == BufferRead(s_buffer, SubSeq(upTx, 1, n))
                 messages == Split(buf1)
                 M == Len(messages.msgs)
             IN  IF lost_correlation(messages, ready_clients)
                 THEN /\ ~crash
                      /\ s_buffer' = buf1
                      /\ pc' = "exit_bad"
                      /\ cur' = 0
                      /\ UNCHANGED <<buffer, cmask, ready_clients, smask,
                                     assigned>>
                 ELSE LET cm == copy_messages(ready_clients, buffer, buf1,
                                              messages.msgs, 1)
                          freed == \E j \in 1..M :
                                       /\ ready_clients[j] # NULL
                                       /\ ready_clients[j] \notin live
                          masks == notify_each(ready_clients, cm.it, cmask)
                      IN  /\ crash => freed
                          /\ buffer' = cm.bufs
                          /\ assigned' = [c \in Slots |->
                                IF c \in live
                                THEN assigned[c] \o SubSeq(cm.bufs[c],
                                         Len(buffer[c]) + 1, Len(cm.bufs[c]))
                                ELSE assigned[c]]
                          /\ IF crash
                             THEN /\ s_buffer' = buf1
                                  /\ pc' = "crash"
                                  /\ cur' = 0
                                  /\ UNCHANGED <<cmask, ready_clients, smask>>
                             ELSE /\ cmask' = [c \in Slots |->
                                                 IF c \in live THEN masks[c]
                                                 ELSE cmask[c]]
                                  /\ ready_clients' =
                                        erase_prefix(ready_clients, cm.it)
                                  /\ s_buffer' = keep_interrupted(buf1, messages)
                                  /\ smask' = {"R", "W"}
                                  /\ pc' = IF w THEN "server_send" ELSE "reactor"
                                  /\ cur' = 0
    /\ UNCHANGED <<live, peer, server_conn, clients, cliOut, nreq, nedge,
                   wire>>

\* Server::triggered with EPOLLRDHUP in the event: delete this.  ~Server
\* calls Proxy::shut_server, which clears the singleton; the queues and the
\* buffer go with the object and ~Connection closes the fd.  Every
\* Client::peer that pointed to the Server is left as it is.
ServerHup ==
    /\ pc = "reactor"
    /\ server_conn # 0
    /\ up # "open"
    /\ server_conn' = 0
    /\ clients' = <<>>
    /\ ready_clients' = <<>>
    /\ s_buffer' = <<>>
    /\ smask' = {}
    /\ wire' = <<>>
    /\ upTx' = <<>>
    /\ up' = "open"
    /\ buffer' = [c \in Slots |-> IF c \in live THEN buffer[c] ELSE <<>>]
    /\ UNCHANGED <<live, cmask, peer, pc, cur, cliOut, assigned, nreq, nedge>>

\* ------------------------------------------------------------- upstream
\* the reply the upstream gives to a request frame
Reply(r) == <<[k |-> "+", c |-> r.c, i |-> r.i],
              [k |-> "crlf", c |-> r.c, i |-> r.i]>>

\* the reply to a line that is no request (an error)
ErrReply == <<[k |-> "-", c |-> 0, i |-> 0], [k |-> "crlf", c |-> 0, i |-> 0]>>

\* a byte that is no RESP type marker
BadByte == [k |-> "x", c |-> 0, i |-> 0]

\* the upstream consumes the next frame of what it was sent and answers it
\* with one reply
UpstreamReply ==
    /\ pc \notin Exits
    /\ up = "open"
    /\ wire # <<>>
    /\ LET e == IF wire[1].k = "req" THEN 1 ELSE FindCrlf(wire, 1)
       IN  /\ e # 0
           /\ wire' = SubSeq(wire, e + 1, Len(wire))
           /\ upTx' = upTx \o (IF wire[1].k = "req" THEN Reply(wire[1])
                               ELSE ErrReply)
    /\ UNCHANGED <<live, buffer, cmask, peer, server_conn, clients,
                   ready_clients, s_buffer, smask, pc, cur, cliOut,
                   assigned, nreq, nedge, up>>

\* the upstream sends a byte that is no reply
UpstreamGarbage ==
    /\ pc \notin Exits
    /\ up = "open"
    /\ server_conn # 0
    /\ Len(SelectSeq(s_buffer \o upTx, LAMBDA b : b = BadByte)) < MaxBad
    /\ upTx' = upTx \o <<BadByte>>
    /\ UNCHANGED <<live, buffer, cmask, peer, server_conn, clients,
                   ready_clients, s_buffer, smask, pc, cur, cliOut,
                   assigned, nreq, nedge, wire, up>>

\* the upstream closes the connection
UpstreamClose ==
    /\ pc \notin Exits
    /\ up = "open"
    /\ server_conn # 0
    /\ up' = "fin"
    /\ UNCHANGED <<live, buffer, cmask, peer, server_conn, clients,
                   ready_clients, s_buffer, smask, pc, cur, cliOut,
                   assigned, nreq, nedge, wire, upTx>>

\* ------------------------------------------------------------- the reactor
Next ==
    \/ \E S \in SUBSET Slots : accept_from(S)
    \/ \E c \in Slots : ClientHup(c)
    \/ \E c \in Slots, k \in 0..MaxPerEdge, w \in BOOLEAN : ClientRecvFrom(c, k, w)
    \/ \E c \in Slots : ClientSendTo(c)
    \/ \E w \in BOOLEAN, crash \in BOOLEAN : ServerRecvFrom(w, crash)
    \/ \E o \in WritevOutcomes, crash \in BOOLEAN : ServerSendTo(o, crash)
    \/ \E o \in WritevOutcomes : WritevRetry(o)
    \/ UpstreamReply
    \/ UpstreamGarbage
    \/ UpstreamClose

Spec == Init /\ [][Next]_vars

\* ------------------------------------------------------------- steps
\* a step in which Server::_recv_from ran and returned: it alone takes
\* bytes from the upstream socket
RecvStep == Len(upTx') < Len(upTx) /\ pc' \notin Exits

\* what that call read, the buffer it framed and the frames it found
RecvRead == SubSeq(upTx, 1, Len(upTx) - Len(upTx'))
RecvBuf == s_buffer \o RecvRead
RecvMsgs == Split(RecvBuf).msgs

\* the bytes of the frames whose slot in q holds x, in frame order
FramesOf(q, x) ==
    Concat([k \in 1..Len(RecvMsgs) |->
               IF q[k] = x THEN Range(RecvBuf, RecvMsgs[k]) ELSE <<>>])

\* ------------------------------------------------------------- C1
\* C1: in every Server::_recv_from that returns, the k-th frame is appended
\* to the buffer of the Client in the k-th slot of ready_clients; a frame whose
\* slot is a tombstone, and nothing else, is appended to no client: each
\* client's buffer grows by exactly the frames of its own slots, in order.
C1_PositionalCorrelation ==
    [][RecvStep =>
         \A c \in live :
            buffer'[c] = buffer[c] \o FramesOf(ready_clients, c)]_vars

\* two live clients have each been given the reply to their own request
C1_Witness ==
    \E a, b \in live :
        /\ a # b
        /\ assigned[a] # <<>> /\ assigned[a][1].c = a
        /\ assigned[b] # <<>> /\ assigned[b][1].c = b

\* ------------------------------------------------------------- C2
IsPrefix(a, b) == Len(a) <= Len(b) /\ SubSeq(b, 1, Len(a)) = a

\* the replies the upstream gives to the requests 1..n of the client in slot c
RepliesTo(c, n) == Concat([i \in 1..n |-> Reply(ReqByte(c, i))])

\* the single-client workload: one client connects, stays connected and
\* sends requests; the upstream answers every request; no writev fails
NextOneClient ==
    \/ accept_from({1})
    \/ \E k \in 1..MaxPerEdge, w \in BOOLEAN : ClientRecvFrom(1, k, w)
    \/ ClientSendTo(1)
    \/ \E w \in BOOLEAN : ServerRecvFrom(w, FALSE)
    \/ \E o \in {"ok", "eagain"} : ServerSendTo(o, FALSE)
    \/ \E o \in {"ok", "eagain"} : WritevRetry(o)
    \/ UpstreamReply

SpecOneClient == Init /\ [][NextOneClient]_vars

\* the reply bytes among bytes
ReplyBytes(bytes) == SelectSeq(bytes, LAMBDA b : b.k # "req")

\* C2: with one client only and an upstream that answers each request with
\* one reply, the process does not terminate and the replies the client has
\* been sent are, byte for byte and in order, the replies to its requests.
C2_SingleClientRoundTrip ==
    /\ pc \notin Exits
    /\ IsPrefix(ReplyBytes(cliOut[1]), RepliesTo(1, nreq))

\* ------------------------------------------------------------- C3
\* a step in which the writev of Server::_send_to wrote its bytes and the
\* handler returned
SendOkStep == Len(wire') > Len(wire) /\ pc' = "reactor"

\* the bytes that step wrote
Written == SubSeq(wire', Len(wire) + 1, Len(wire'))

\* the queue the batch was built from
Batch == IF pc = "writev" THEN ready_clients ELSE clients

\* position of the first entry of q that is x
FirstIn(q, x) == CHOOSE j \in 1..Len(q) : q[j] = x /\ \A h \in 1..(j - 1) : q[h] # x

\* C3: a batch written to the upstream consists of request bytes only; the
\* bytes of one client are contiguous, in the order it sent them and none
\* twice; the clients' bytes follow each other in the order the clients were
\* appended to clients (staging).
C3_RequestOrdering ==
    [][SendOkStep =>
        LET W == Written IN
        /\ \A j \in 1..Len(W) : W[j].k = "req"
        /\ \A j1, j2 \in 1..Len(W) :
              (j1 < j2 /\ W[j1].c = W[j2].c)
                 => /\ W[j1].i < W[j2].i
                    /\ \A j \in j1..j2 : W[j].c = W[j1].c
        /\ \A j1, j2 \in 1..Len(W) :
              (j1 < j2 /\ W[j1].c # W[j2].c)
                 => FirstIn(Batch, W[j1].c) < FirstIn(Batch, W[j2].c)]_vars

\* ------------------------------------------------------------- C4
\* C4: every byte written to a client's socket is a byte of a reply that
\* Server::_recv_from gave to that client, in the order they were given.
C4_Transparency == \A c \in live : IsPrefix(cliOut[c], assigned[c])

\* ------------------------------------------------------------- C5
\* C5: after a successful upstream send no client of the batch holds request
\* bytes any more, so that no request byte is written upstream a second time.
C5_RequestsCleared ==
    [][SendOkStep =>
        \A j \in 1..Len(Batch) :
            Batch[j] \in live =>
                \A h \in 1..Len(buffer'[Batch[j]]) :
                    buffer'[Batch[j]][h].k # "req"]_vars

\* ------------------------------------------------------------- C6
\* C6 as stated: the entries of ready_clients (tombstones included) and of
\* clients together are at most the live Client sessions.
C6_AtMostLiveClients ==
    Len(ready_clients) + Len(clients) <= Cardinality(live)

\* C6, amended: the entries of ready_clients and of clients together are at
\* most the readable client edges that delivered bytes so far: each such
\* edge adds one entry, and the count can exceed the live Client sessions.
C6_AtMostEdges == Len(ready_clients) + Len(clients) <= nedge

\* the queues hold more entries than there are live clients
C6_Witness ==
    /\ Len(ready_clients) + Len(clients) > Cardinality(live)
    /\ \E j \in 1..Len(ready_clients) : ready_clients[j] = NULL
    /\ clients # <<>>

\* ------------------------------------------------------------- C7
\* a step of Server::_send_to that can be told from the state: the call
\* after _recv_from in one event, a round of the writev loop, or a call that
\* wrote, went into the loop or ended the process on the writev (the
\* upstream, which may act meanwhile, is the one that changes upTx and up)
SendToStep ==
    \/ pc = "server_send" /\ UNCHANGED <<upTx, up>>
    \/ pc = "writev" /\ UNCHANGED <<upTx, up>>
    \/ /\ pc = "reactor"
       /\ \/ pc' \in {"writev", "exit_io"}
          \/ (smask' # smask /\ smask' = {"R"})

\* the bytes of the buffers of the clients in q, in queue order
BatchBytes(q) == Concat([j \in 1..Len(q) |-> buffer[q[j]]])

\* C7: Server::_send_to changes nothing and writes nothing when clients is
\* empty or ready_clients is not; otherwise it moves the whole of clients, in
\* order, into ready_clients and leaves clients empty, and when it returns
\* the buffers of the batch have been written, whole and in order, by one
\* writev and the upstream mask is EPOLLIN alone.  Nothing is written
\* upstream in any other way.
C7_OneBatchInFlight ==
    [][/\ (SendToStep /\ pc # "writev") =>
            IF clients = <<>> \/ ready_clients # <<>>
            THEN UNCHANGED <<progVars, wire>>
            ELSE /\ ready_clients' = clients
                 /\ clients' = <<>>
                 /\ UNCHANGED <<buffer, cmask, live, s_buffer>>
                 /\ pc' = "reactor" =>
                       wire' = wire \o BatchBytes(clients) /\ smask' = {"R"}
                 /\ pc' = "writev" => UNCHANGED <<wire, smask>>
       /\ (SendToStep /\ pc = "writev") =>
            /\ UNCHANGED <<clients, ready_clients, buffer, cmask, live, s_buffer>>
            /\ pc' = "reactor" =>
                  wire' = wire \o BatchBytes(ready_clients) /\ smask' = {"R"}
            /\ pc' = "writev" => UNCHANGED <<wire, smask>>
       /\ Len(wire') > Len(wire) =>
            /\ SendToStep
            /\ (pc = "writev") \/ (clients # <<>> /\ ready_clients = <<>>)]_vars

\* a batch is in flight, a client is staged behind it and the upstream is
\* armed for writing: the next Server::_send_to is the skipped one
C7_Witness ==
    /\ ready_clients # <<>>
    /\ clients # <<>>
    /\ pc = "reactor"
    /\ smask = {"R", "W"}

\* ------------------------------------------------------------- C8
\* C8: when Server::_recv_from frames M messages and returns, exactly the
\* first M entries of ready_clients are removed, the others keep their
\* order, and clients is unchanged.
C8_PrefixRemoved ==
    [][RecvStep =>
        /\ Len(RecvMsgs) <= Len(ready_clients)
        /\ ready_clients' =
              SubSeq(ready_clients, Len(RecvMsgs) + 1, Len(ready_clients))
        /\ clients' = clients]_vars

\* one entry is left in ready_clients after a reply was framed and given out
C8_Witness ==
    /\ Len(ready_clients) = 1
    /\ \E c \in live : assigned[c] # <<>> /\ buffer[c] # <<>>
    /\ s_buffer # <<>>

\* ------------------------------------------------------------- C9
\* a step in which the Client in slot c is deleted
DeleteStep(c) == c \in live /\ c \notin live'

\* C9: when a Client is destroyed every slot of ready_clients that pointed
\* to it becomes a tombstone in place: the length and every other slot are
\* unchanged.  When replies arrive for slots that are tombstones they are
\* given to no client, ready_clients still shrinks by one per reply, and the
\* frames of the other slots go to the clients in those slots.
C9_Tombstoning ==
    [][/\ \A c \in Slots :
            DeleteStep(c) =>
               /\ Len(ready_clients') = Len(ready_clients)
               /\ \A j \in 1..Len(ready_clients) :
                     ready_clients'[j] =
                        IF ready_clients[j] = c THEN NULL ELSE ready_clients[j]
       /\ (RecvStep /\ \E j \in 1..Len(RecvMsgs) : ready_clients[j] = NULL) =>
               /\ Len(ready_clients') = Len(ready_clients) - Len(RecvMsgs)
               /\ \A c \in live :
                     Len(buffer'[c]) = Len(buffer[c]) +
                        Len(FramesOf(ready_clients, c))
               /\ \A c \in live, j \in 1..Len(RecvMsgs) :
                     ready_clients[j] = c =>
                        \E h \in 1..Len(buffer'[c]) :
                           buffer'[c][h] = RecvBuf[RecvMsgs[j][1]]]_vars

\* a tombstone stands before the slot of a live client
C9_Witness ==
    \E j, h \in 1..Len(ready_clients) :
        j < h /\ ready_clients[j] = NULL /\ ready_clients[h] \in live

\* ------------------------------------------------------------- C10
\* C10: no entry of clients and no entry of ready_clients other than a
\* tombstone refers to a destroyed Client.
C10_NoDestroyedClientQueued ==
    /\ \A j \in 1..Len(clients) : clients[j] \in live
    /\ \A j \in 1..Len(ready_clients) :
          ready_clients[j] # NULL => ready_clients[j] \in live

\* ------------------------------------------------------------- C11
\* a step in which Server::_recv_from took bytes from the upstream socket
ReadStep == Len(upTx') < Len(upTx)

AllFrames == Concat([k \in 1..Len(RecvMsgs) |-> Range(RecvBuf, RecvMsgs[k])])

\* what the buffer of the client in slot c grew by in the step
Grown(c) == SubSeq(buffer'[c], Len(buffer[c]) + 1, Len(buffer'[c]))

\* C12: after a Server::_recv_from that returns, _buffer holds exactly the
\* bytes after the last complete frame (nothing if the parse finished) and no
\* complete frame; every byte read is thus either in a frame given out now
\* or kept for a later call, so a reply that arrives in pieces is given
\* out once and whole; each client grows by whole frames, as many bytes as
\* its own slots framed; a call that completes no frame leaves
\* ready_clients and every client's buffer as they were.
C12_PartialReplies ==
    [][RecvStep =>
        /\ RecvBuf = AllFrames \o s_buffer'
        /\ Split(s_buffer').msgs = <<>>
        /\ Split(RecvBuf).finished => s_buffer' = <<>>
        /\ \A c \in live :
              /\ IsPrefix(buffer[c], buffer'[c])
              /\ Split(Grown(c)).finished /\ ~Split(Grown(c)).bad
              /\ Len(Grown(c)) = Len(FramesOf(ready_clients, c))
        /\ RecvMsgs = <<>> =>
              /\ ready_clients' = ready_clients
              /\ \A c \in live : buffer'[c] = buffer[c]]_vars

\* the first byte of a reply is kept in _buffer, its client waits at the head
\* of ready_clients and the rest of the reply is still on the socket
C12_Witness ==
    /\ pc = "reactor"
    /\ Len(s_buffer) = 1 /\ s_buffer[1].k = "+"
    /\ ready_clients # <<>>
    /\ ready_clients[1] \in live /\ ready_clients[1] = s_buffer[1].c
    /\ upTx # <<>> /\ upTx[1].k = "crlf"

\* ------------------------------------------------------------- C13
\* the reactor when the event it hands to Server::triggered carries
\* EPOLLRDHUP once the upstream peer has closed
NextHup ==
    \/ Next
    \/ ServerHup

SpecHup == Init /\ [][NextHup]_vars

C14_PeerCloseDestroys ==
    ~(server_conn # 0 /\ up = "eof")

\* ------------------------------------------------------------- C15
\* C15: the mask of a live client's fd is {EPOLLIN, EPOLLRDHUP} or
\* {EPOLLIN, EPOLLOUT, EPOLLRDHUP}: in every state it holds EPOLLIN and
\* EPOLLRDHUP.
C15_ClientMask ==
    \A c \in live : {"R", "H"} \subseteq cmask[c]

\* ------------------------------------------------------------- C16
\* a step in which Server::_send_to moved a batch and returned: its writev
\* wrote the batch
TransmitStep ==
    /\ SendToStep
    /\ pc' = "reactor"
    /\ pc = "writev" \/ (clients # <<>> /\ ready_clients = <<>>)

\* a step in which a Client::_recv_from read request bytes and staged them
StageStep == nedge' = nedge + 1

\* C16: the upstream fd is registered with {EPOLLIN, EPOLLOUT}; the mask
\* loses EPOLLOUT exactly in the steps in which Server::_send_to transmits
\* a batch, and is {EPOLLIN, EPOLLOUT} again after every Client::_recv_from
\* that stages a request and every Server::_recv_from that frames what it
\* read and returns (the call that reads the end of the stream returns at
\* once and leaves the mask as it is); whenever the reactor is between
\* handlers and clients (staging) is not empty, the mask holds EPOLLOUT.
C16_UpstreamMask ==
    /\ [](/\ (server_conn = 0) <=> (smask = {})
          /\ smask \in {{}, {"R"}, {"R", "W"}}
          /\ (pc = "reactor" /\ clients # <<>>) => "W" \in smask)
    /\ [][/\ (server_conn = 0 /\ server_conn' # 0) => smask' = {"R", "W"}
          /\ TransmitStep <=> ("W" \in smask /\ smask' = {"R"})
          /\ StageStep => smask' = {"R", "W"}
          /\ RecvStep => smask' = {"R", "W"}
          /\ (up = "fin" /\ up' = "eof") => smask' = smask]_vars

\* a batch has been written, nothing is staged and the upstream fd is armed
\* for reading only
C16_Witness ==
    /\ pc = "reactor"
    /\ smask = {"R"}
    /\ ready_clients # <<>>
    /\ clients = <<>>
    /\ wire # <<>>

\* ------------------------------------------------------------- C17
\* C17: no handler is left running when its socket would block: a writev of
\* Server::_send_to that reports EAGAIN makes the handler return to the
\* reactor, so the reactor thread is never inside the writev loop waiting
\* for the upstream socket.
C17_HandlersReturn ==
    pc # "writev"

\* ------------------------------------------------------------- C18
\* the request frames among bytes
Requests(bytes) == SelectSeq(bytes, LAMBDA b : b.k = "req")

\* C18: a Server::_send_to that transmits a batch moves as many entries from
\* clients into ready_clients as there are complete requests in the bytes
\* its writev writes.
C18_BatchAccounting ==
    [][TransmitStep =>
          Len(Batch) = Len(Requests(SubSeq(wire', Len(wire) + 1, Len(wire'))))]_vars

\* ------------------------------------------------------------- C19
\* the reactor with clients that stay connected and an upstream that stays
\* open and writable (every writev writes the whole batch) and sends nothing
\* but replies
NextLive ==
    \/ \E S \in SUBSET Slots : accept_from(S)
    \/ \E c \in Slots, k \in 1..MaxPerEdge, w \in BOOLEAN : ClientRecvFrom(c, k, w)
    \/ \E c \in Slots : ClientSendTo(c)
    \/ \E w \in BOOLEAN : ServerRecvFrom(w, FALSE)
    \/ ServerSendTo("ok", FALSE)
    \/ UpstreamReply

\* readiness is delivered fairly: a handler whose event stays pending runs,
\* and the upstream answers what it has received
SpecLive ==
    /\ Init
    /\ [][NextLive]_vars
    /\ \A c \in Slots : WF_vars(ClientSendTo(c))
    /\ WF_vars(\E w \in BOOLEAN : ServerRecvFrom(w, FALSE))
    /\ WF_vars(ServerSendTo("ok", FALSE))
    /\ WF_vars(UpstreamReply)

\* C19: while the process runs, ready_clients does not stay non-empty for
\* ever and clients (staging) does not either: what is staged is sent, and
\* what is sent is answered and leaves ready_clients.
C19_Progress ==
    /\ (ready_clients # <<>>) ~> (ready_clients = <<>> \/ pc \in Exits)
    /\ (clients # <<>>) ~> (clients = <<>> \/ pc \in Exits)

====
